---- MODULE Spec2Model ----
(***************************************************************************)
(* Task-graph orchestration of NexBuilder: the App component's project     *)
(* state and handlers (App.tsx), the BuilderBoard readiness conditions and *)
(* button guards, the file extraction of aiService.ts and the storage      *)
(* service.                                                                *)
(***************************************************************************)
EXTENDS Integers, Sequences, FiniteSets, TLC

\* ------------------------------------------------------------------ bounds
MaxLog == 4        \* longest activity log explored
MaxNewIds == 2     \* number of crypto.randomUUID() task ids handed out
MaxSubtasks == 2   \* longest answer of the decomposition collaborator
MaxDeepLog == 6    \* longest activity log explored for the plans of DeepPlans

\* --------------------------------------------------------------- constants
NoOutput == 0      \* Task.output is undefined
NoTask == 0        \* editingTask is null / Array.find found nothing
GhostId == 9       \* an id of the generated plan that names no task
IdBase == 10       \* fresh ids are IdBase+1, IdBase+2, ...

Outputs == {1}             \* raw texts the executor collaborator returns
AuxOutputs == {1, 2, 3}    \* raw texts the executor returns in SpecAux
ErrMsgs == {"OpenRouter API Error"}  \* messages of a failing executor call
\* messages of a failing split: thrown by decomposeTask, or by handleSplitTask
\* when decomposeTask returned an empty array
SplitErrMsgs == {"Could not parse valid JSON from AI response.", "AI returned no subtasks."}
PkgNames == {"lodash", "react"}  \* package names typed into the package input
EditTexts == {"edited"}    \* texts typed into the edit modal
UserContents == {7}        \* contents typed into the code editor
ConcOutputs == {3}         \* raw texts the executor returns in SpecConc
ConcPkgNames == {"lodash"} \* package names typed in SpecConc

VARIABLES
    isLoadingStorage,  \* App state isLoadingStorage
    project,           \* App state project ([present |-> FALSE] is null)
    persisted,         \* IndexedDB entry nexbuilder_project
    isExecuting,       \* App state isExecuting
    isSplitting,       \* App state isSplitting
    isGenerating,      \* App state isGenerating
    execCalls,         \* outstanding executeTask calls (captured task each)
    splitCalls,        \* outstanding decomposeTask calls (captured task each)
    editingTask,       \* BuilderBoard state editingTask (id of the task)
    uuids,             \* number of task ids drawn from crypto.randomUUID()
    planName,          \* history: which plan the project was generated from
    errorMsg,          \* App state errorMsg (null is "")
    lastAlert          \* text of the alert() shown by the last step ("" if none)

vars == <<isLoadingStorage, project, persisted, isExecuting, isSplitting,
          isGenerating, execCalls, splitCalls, editingTask, uuids, planName,
          errorMsg, lastAlert>>

NoProject == [present |-> FALSE]
NoAlert == <<>>

\* ------------------------------------------------------------ data helpers
Task(id, title, deps) ==
    [id |-> id, title |-> title, description |-> title,
     agentRole |-> "architect", status |-> "pending",
     dependencies |-> deps, output |-> NoOutput]

\* output.length of the raw texts the executor returns: text 1 is shorter
\* than DetailsLimit, text 2 has exactly that length, text 3 is one longer
OutputLength(output) ==
    IF output = 1 THEN 120 ELSE IF output = 2 THEN 300 ELSE 301

DetailsLimit == 300    \* the end index of output.substring(0, 300)
EllipsisLength == 3    \* '...'.length

\* length of output.substring(0, 300) + (output.length > 300 ? '...' : '')
DetailsLength(len) ==
    (IF len < DetailsLimit THEN len ELSE DetailsLimit)
        + (IF len > DetailsLimit THEN EllipsisLength ELSE 0)

\* an activity-log entry; details is kept as the kind of text, the value it
\* was built from and, for the truncated output of a completed event, its
\* length (0 where the length of the text is not tracked)
LogEntry(taskId, taskTitle, status, kind, n) ==
    [taskId |-> taskId, taskTitle |-> taskTitle, status |-> status,
     details |-> [kind |-> kind, n |-> n,
                  len |-> IF kind = "output"
                          THEN DetailsLength(OutputLength(n)) ELSE 0]]

Range(s) == {s[i] : i \in 1..Len(s)}

MapSeq(s, F(_)) == [i \in 1..Len(s) |-> F(s[i])]

\* Array.prototype.findIndex, 1-based; 0 when no element matches
FindIndex(s, P(_)) ==
    IF \E i \in 1..Len(s) : P(s[i])
    THEN CHOOSE i \in 1..Len(s) : P(s[i]) /\ \A j \in 1..(i-1) : ~P(s[j])
    ELSE 0

\* ---------------------------------------------------------- plan generator
\* answers of generateProjectPlan: task lists as the collaborator gives them
Plans ==
    [chain    |-> <<Task(1, "a", <<>>), Task(2, "b", <<1>>)>>,
     fanin    |-> <<Task(1, "a", <<>>), Task(2, "b", <<>>), Task(3, "c", <<1, 2>>)>>,
     self     |-> <<Task(1, "a", <<>>), Task(2, "b", <<2, 1>>)>>,
     dangling |-> <<Task(1, "a", <<>>), Task(2, "b", <<1, GhostId>>)>>,
     cycle    |-> <<Task(1, "a", <<2>>), Task(2, "b", <<1>>)>>,
     star     |-> <<Task(1, "a", <<>>), Task(2, "b", <<1>>), Task(3, "c", <<1>>)>>,
     dup      |-> <<Task(1, "a", <<>>), Task(1, "b", <<>>), Task(2, "c", <<1>>)>>,
     ladder   |-> <<Task(1, "a", <<>>), Task(2, "b", <<1>>), Task(3, "c", <<1, 2>>)>>,
     empty    |-> <<>>]

\* the packages of the answers of generateProjectPlan; the plan of the
\* repeated task id names a package twice as well
PlanPackages(name) ==
    IF name = "dup" THEN <<"react", "react">> ELSE <<"react">>

PlanNames == {"chain", "fanin", "self", "dangling", "cycle", "empty"}

\* the plans generated in SpecReset
ResetPlans == {"chain", "cycle"}

\* the plans whose lifetime is explored up to MaxDeepLog log entries
DeepPlans == {"star"}

\* the plans whose lifetime is explored to its end: every task executed and
\* every fresh id used
ProgressPlans == {"ladder"}

\* a project stored by the earlier version of the application, which had
\* neither activityLog nor packages, closed while task 2 was running
LegacyStored ==
    [present |-> TRUE,
     tasks |-> <<[Task(1, "a", <<>>) EXCEPT !.status = "completed", !.output = 2],
                 [Task(2, "b", <<1>>) EXCEPT !.status = "in_progress"]>>,
     files |-> <<[path |-> "index.html", content |-> 4, language |-> "html"]>>]

\* --------------------------------------------------------------- readiness
\* mutant: a dependency that names no task counts as satisfied
DepCompleted_missingOk(tasks, depId) ==
    LET i == FindIndex(tasks, LAMBDA pt : pt.id = depId)
    IN  IF i = 0 THEN TRUE ELSE tasks[i].status = "completed"

\* tasks.find(pt => pt.id === depId)?.status === 'completed'
DepCompleted(tasks, depId) ==
    LET i == FindIndex(tasks, LAMBDA pt : pt.id = depId)
    IN  IF i = 0 THEN FALSE ELSE tasks[i].status = "completed"

\* TaskCard.isReady
isReady(task, tasks) ==
    /\ task.status = "pending"
    /\ \A k \in 1..Len(task.dependencies) : DepCompleted(tasks, task.dependencies[k])

\* BuilderBoard.pendingReadyTasks
pendingReadyTasks(tasks) == SelectSeq(tasks, LAMBDA t : isReady(t, tasks))

isPending(task) == task.status = "pending" \/ task.status = "blocked"

\* ------------------------------------------------------ aiService.ts helpers
Language(path) ==
    IF path = "index.html" THEN "html"
    ELSE IF path = "style.css" THEN "css" ELSE "javascript"

File(path, content) == [path |-> path, content |-> content, language |-> Language(path)]

\* extractFilesFromOutput applied to the raw texts: text 1 holds three file
\* blocks of which two share a path, text 2 holds one block, text 3 holds two
\* blocks, any other none
extractFilesFromOutput(output) ==
    IF output = 1
    THEN <<File("app.js", 1), File("index.html", 2), File("app.js", 3)>>
    ELSE IF output = 2 THEN <<File("index.html", 4)>>
    ELSE IF output = 3 THEN <<File("style.css", 5), File("app.js", 6)>>
    ELSE <<>>

\* answers of decomposeTask with n subtasks; agentRole is optional
RawSubtasks(n) ==
    [i \in 1..n |-> [title |-> "sub", description |-> "sub",
                      agentRole |-> IF i = 1 THEN "" ELSE "reviewer"]]

\* ------------------------------------------------------------- persistence
\* mutant: recovery resets every task that is not completed
Recover_resetsFailed(savedProject) ==
    [present |-> TRUE,
     tasks |-> MapSeq(savedProject.tasks,
                 LAMBDA t : IF t.status # "completed"
                            THEN [t EXCEPT !.status = "pending"] ELSE t),
     files |-> savedProject.files,
     packages |-> IF "packages" \in DOMAIN savedProject
                  THEN savedProject.packages ELSE <<>>,
     activityLog |-> IF "activityLog" \in DOMAIN savedProject
                     THEN savedProject.activityLog ELSE <<>>]

\* mutant: the loaded project is installed as it was stored
Recover_asStored(savedProject) ==
    [present |-> TRUE,
     tasks |-> savedProject.tasks,
     files |-> savedProject.files,
     packages |-> IF "packages" \in DOMAIN savedProject
                  THEN savedProject.packages ELSE <<>>,
     activityLog |-> IF "activityLog" \in DOMAIN savedProject
                     THEN savedProject.activityLog ELSE <<>>]

\* init: crash recovery of the loaded project
Recover(savedProject) ==
    [present |-> TRUE,
     tasks |-> MapSeq(savedProject.tasks,
                 LAMBDA t : IF t.status = "in_progress"
                            THEN [t EXCEPT !.status = "pending"] ELSE t),
     files |-> savedProject.files,
     packages |-> IF "packages" \in DOMAIN savedProject
                  THEN savedProject.packages ELSE <<>>,
     activityLog |-> IF "activityLog" \in DOMAIN savedProject
                     THEN savedProject.activityLog ELSE <<>>]

\* mutant: the effect saves only while nothing is stored yet
AutoSave_firstOnly(loading, proj, stored) ==
    IF ~loading /\ proj.present /\ ~stored.present THEN proj ELSE stored

\* auto-save effect: saveProject(project) when loading is over and a project
\* exists. idb-keyval stores a structured clone, which keeps every field of
\* these plain records, so the stored value is the project itself
AutoSave(loading, proj, stored) ==
    IF ~loading /\ proj.present THEN proj ELSE stored

\* longest log explored for the current project
LogBound ==
    IF planName \in ProgressPlans
    THEN 2 * Len(Plans[planName]) + 4 * MaxNewIds
    ELSE IF planName \in DeepPlans THEN MaxDeepLog ELSE MaxLog

\* room left in the explored log for an operation that appends n entries,
\* counting the entry every outstanding call will append
LogRoom(n) ==
    /\ project.present
    /\ Len(project.activityLog) + Cardinality(execCalls)
         + Cardinality(splitCalls) + n <= LogBound

\* ------------------------------------------------------------------- Init
Init ==
    /\ isLoadingStorage = TRUE
    /\ project = NoProject
    /\ persisted \in {NoProject, LegacyStored}
    /\ isExecuting = FALSE
    /\ isSplitting = FALSE
    /\ isGenerating = FALSE
    /\ execCalls = {}
    /\ splitCalls = {}
    /\ editingTask = NoTask
    /\ uuids = 0
    /\ planName = IF persisted.present THEN "legacy" ELSE "none"
    /\ errorMsg = ""
    /\ lastAlert = NoAlert

\* mutant: the init effect installs the stored project and keeps loading
Load_staysLoading ==
    /\ isLoadingStorage
    /\ project' = IF persisted.present THEN Recover(persisted) ELSE NoProject
    /\ lastAlert' = NoAlert
    /\ UNCHANGED <<isLoadingStorage, persisted, isExecuting, isSplitting,
                   isGenerating, execCalls, splitCalls, editingTask, uuids,
                   planName, errorMsg>>

\* ---------------------------------------------------------------- startup
\* useEffect init: loadProject, crash recovery, setIsLoadingStorage(false)
Load ==
    /\ isLoadingStorage
    /\ project' = IF persisted.present THEN Recover(persisted) ELSE NoProject
    /\ isLoadingStorage' = FALSE
    /\ persisted' = AutoSave(FALSE, project', persisted)
    /\ lastAlert' = NoAlert
    /\ UNCHANGED <<isExecuting, isSplitting, isGenerating, execCalls,
                   splitCalls, editingTask, uuids, planName, errorMsg>>

\* the page is closed or crashes and the application is opened again: the
\* component state is the initial one, outstanding calls are gone, storage stays
Reload ==
    /\ ~isLoadingStorage
    /\ isLoadingStorage' = TRUE
    /\ project' = NoProject
    /\ isExecuting' = FALSE
    /\ isSplitting' = FALSE
    /\ isGenerating' = FALSE
    /\ execCalls' = {}
    /\ splitCalls' = {}
    /\ editingTask' = NoTask
    /\ errorMsg' = ""
    /\ lastAlert' = NoAlert
    /\ UNCHANGED <<persisted, uuids, planName>>

\* ------------------------------------------------------- handleCreateProject
\* Create button: disabled while isGenerating; shown while there is no project
CreateStart ==
    /\ ~isLoadingStorage
    /\ ~project.present
    /\ ~isGenerating
    /\ isGenerating' = TRUE
    /\ errorMsg' = ""
    /\ lastAlert' = NoAlert
    /\ UNCHANGED <<isLoadingStorage, project, persisted, isExecuting, isSplitting,
                   execCalls, splitCalls, editingTask, uuids, planName>>

\* mutant: a plan without tasks is accepted as a project
CreateDone_acceptsEmpty(name) ==
    /\ ~isLoadingStorage
    /\ isGenerating
    /\ isGenerating' = FALSE
    /\ project' = [present |-> TRUE,
                   tasks |-> MapSeq(Plans[name],
                               LAMBDA t : [t EXCEPT !.status = "pending"]),
                   files |-> <<>>,
                   packages |-> PlanPackages(name),
                   activityLog |-> <<>>]
    /\ planName' = name
    /\ persisted' = AutoSave(isLoadingStorage, project', persisted)
    /\ lastAlert' = NoAlert
    /\ UNCHANGED <<isLoadingStorage, isExecuting, isSplitting, execCalls,
                   splitCalls, editingTask, uuids, errorMsg>>

\* generateProjectPlan answered with plan name
CreateDone(name) ==
    /\ ~isLoadingStorage
    /\ isGenerating
    /\ isGenerating' = FALSE
    /\ IF Len(Plans[name]) = 0
       THEN /\ errorMsg' = "The AI returned an empty plan."
            /\ UNCHANGED <<project, planName>>
       ELSE /\ project' = [present |-> TRUE,
                           tasks |-> MapSeq(Plans[name],
                                       LAMBDA t : [t EXCEPT !.status = "pending"]),
                           files |-> <<>>,
                           packages |-> PlanPackages(name),
                           activityLog |-> <<>>]
            /\ planName' = name
            /\ UNCHANGED errorMsg
    /\ persisted' = AutoSave(isLoadingStorage, project', persisted)
    /\ lastAlert' = NoAlert
    /\ UNCHANGED <<isLoadingStorage, isExecuting, isSplitting, execCalls,
                   splitCalls, editingTask, uuids>>

\* generateProjectPlan threw
CreateFail ==
    /\ ~isLoadingStorage
    /\ isGenerating
    /\ isGenerating' = FALSE
    /\ errorMsg' = "Invalid plan generated."
    /\ lastAlert' = NoAlert
    /\ UNCHANGED <<isLoadingStorage, project, persisted, isExecuting, isSplitting,
                   execCalls, splitCalls, editingTask, uuids, planName>>

\* -------------------------------------------------------- handleResetProject
\* Reset Project of the home view, confirmed: the project is dropped and its
\* stored copy deleted; the in-flight flags and the outstanding calls stay
ResetProject ==
    /\ ~isLoadingStorage
    /\ project.present
    /\ project' = NoProject
    /\ persisted' = NoProject
    /\ editingTask' = NoTask
    /\ lastAlert' = NoAlert
    /\ UNCHANGED <<isLoadingStorage, isExecuting, isSplitting, isGenerating,
                   execCalls, splitCalls, uuids, planName, errorMsg>>

\* --------------------------------------------------------- handleExecuteTask
\* the updater that installs in_progress and the started entry
ExecStartUpdate(prev, task) ==
    IF ~prev.present THEN prev
    ELSE [prev EXCEPT
            !.tasks = MapSeq(prev.tasks,
                        LAMBDA t : IF t.id = task.id
                                   THEN [t EXCEPT !.status = "in_progress"] ELSE t),
            !.activityLog = Append(@, LogEntry(task.id, task.title, "started", "", 0))]

\* handleExecuteTask up to the await of executeTask
handleExecuteTask(task) ==
    /\ project.present
    /\ LogRoom(2)
    /\ isExecuting' = TRUE
    /\ project' = ExecStartUpdate(project, task)
    /\ execCalls' = execCalls \cup {task}
    /\ persisted' = AutoSave(isLoadingStorage, project', persisted)
    /\ lastAlert' = NoAlert
    /\ UNCHANGED <<isLoadingStorage, isSplitting, isGenerating, splitCalls,
                   editingTask, uuids, planName, errorMsg>>

\* mutant: the Execute button is offered on every pending card
ExecuteButtonShown_anyPending(task) ==
    /\ isPending(task)
    /\ ~isExecuting
    /\ ~isSplitting

\* guard of the Execute button of a task card
ExecuteButtonShown(task) ==
    /\ isReady(task, project.tasks)
    /\ task.status # "in_progress"
    /\ ~isExecuting
    /\ ~isSplitting

\* guard of the Auto-Pilot button
AutoPilotShown ==
    /\ Len(pendingReadyTasks(project.tasks)) > 0
    /\ ~isExecuting

\* click on the Execute button of the card of tasks[i]
ClickExecute(i) ==
    /\ ~isLoadingStorage
    /\ project.present
    /\ i \in 1..Len(project.tasks)
    /\ ExecuteButtonShown(project.tasks[i])
    /\ handleExecuteTask(project.tasks[i])

\* click on Auto-Pilot: handleBatchRun executes the first ready task
ClickAutoPilot ==
    /\ ~isLoadingStorage
    /\ project.present
    /\ AutoPilotShown
    /\ handleExecuteTask(pendingReadyTasks(project.tasks)[1])

\* mutant: every extracted file is appended
MergeFiles_appendAlways(updatedFiles, newFiles) == updatedFiles \o newFiles

\* the merge of the extracted files into prev.files
RECURSIVE MergeFiles(_, _)
MergeFiles(updatedFiles, newFiles) ==
    IF Len(newFiles) = 0 THEN updatedFiles
    ELSE LET nf == Head(newFiles)
             index == FindIndex(updatedFiles, LAMBDA f : f.path = nf.path)
         IN  MergeFiles(IF index > 0 THEN [updatedFiles EXCEPT ![index] = nf]
                        ELSE Append(updatedFiles, nf),
                        Tail(newFiles))

\* mutant: the success updater installs the extracted files as the whole store
ExecSuccessUpdate_replacesFiles(prev, task, output) ==
    IF ~prev.present THEN prev
    ELSE [prev EXCEPT
            !.files = extractFilesFromOutput(output),
            !.tasks = MapSeq(prev.tasks,
                        LAMBDA t : IF t.id = task.id
                                   THEN [t EXCEPT !.status = "completed",
                                                  !.output = output]
                                   ELSE t),
            !.activityLog = Append(@, LogEntry(task.id, task.title, "completed",
                                               "output", output))]

\* mutant: the success updater pushes the extracted files without the lookup
ExecSuccessUpdate_pushAll(prev, task, output) ==
    IF ~prev.present THEN prev
    ELSE [prev EXCEPT
            !.files = @ \o extractFilesFromOutput(output),
            !.tasks = MapSeq(prev.tasks,
                        LAMBDA t : IF t.id = task.id
                                   THEN [t EXCEPT !.status = "completed",
                                                  !.output = output]
                                   ELSE t),
            !.activityLog = Append(@, LogEntry(task.id, task.title, "completed",
                                               "output", output))]

\* the updater after executeTask returned output
ExecSuccessUpdate(prev, task, output) ==
    IF ~prev.present THEN prev
    ELSE [prev EXCEPT
            !.files = MergeFiles(prev.files, extractFilesFromOutput(output)),
            !.tasks = MapSeq(prev.tasks,
                        LAMBDA t : IF t.id = task.id
                                   THEN [t EXCEPT !.status = "completed",
                                                  !.output = output]
                                   ELSE t),
            !.activityLog = Append(@, LogEntry(task.id, task.title, "completed",
                                               "output", output))]

\* mutant: the catch block stores a text as the output of the failed task
ExecFailUpdate_withOutput(prev, task, msg) ==
    IF ~prev.present THEN prev
    ELSE [prev EXCEPT
            !.tasks = MapSeq(prev.tasks,
                        LAMBDA t : IF t.id = task.id
                                   THEN [t EXCEPT !.status = "failed", !.output = 1]
                                   ELSE t),
            !.activityLog = Append(@, LogEntry(task.id, task.title, "failed", msg, 0))]

\* the updater of the catch block
ExecFailUpdate(prev, task, msg) ==
    IF ~prev.present THEN prev
    ELSE [prev EXCEPT
            !.tasks = MapSeq(prev.tasks,
                        LAMBDA t : IF t.id = task.id
                                   THEN [t EXCEPT !.status = "failed"] ELSE t),
            !.activityLog = Append(@, LogEntry(task.id, task.title, "failed", msg, 0))]

\* executeTask of an outstanding call returns output
ExecSuccess(task, output) ==
    /\ task \in execCalls
    /\ project' = ExecSuccessUpdate(project, task, output)
    /\ isExecuting' = FALSE
    /\ execCalls' = execCalls \ {task}
    /\ persisted' = AutoSave(isLoadingStorage, project', persisted)
    /\ lastAlert' = NoAlert
    /\ UNCHANGED <<isLoadingStorage, isSplitting, isGenerating, splitCalls,
                   editingTask, uuids, planName, errorMsg>>

\* executeTask of an outstanding call throws
ExecFail(task, msg) ==
    /\ task \in execCalls
    /\ project' = ExecFailUpdate(project, task, msg)
    /\ lastAlert' = <<"Task execution failed: ", msg>>
    /\ isExecuting' = FALSE
    /\ execCalls' = execCalls \ {task}
    /\ persisted' = AutoSave(isLoadingStorage, project', persisted)
    /\ UNCHANGED <<isLoadingStorage, isSplitting, isGenerating, splitCalls,
                   editingTask, uuids, planName, errorMsg>>

\* ----------------------------------------------------------- handleSplitTask
\* the updater that appends the 'Decomposing' entry
SplitStartUpdate(prev, task) ==
    IF ~prev.present THEN prev
    ELSE [prev EXCEPT
            !.activityLog = Append(@, LogEntry(task.id, task.title, "split",
                                               "Decomposing", 0))]

\* mutant: the scissors are offered while a split is in flight
SplitEditShown_whileSplitting(task) == isPending(task)

\* guard of the split and edit buttons of a task card
SplitEditShown(task) == isPending(task) /\ ~isSplitting

\* click on the scissors of the card of tasks[i]: handleSplitTask up to the await
ClickSplit(i) ==
    /\ ~isLoadingStorage
    /\ project.present
    /\ i \in 1..Len(project.tasks)
    /\ SplitEditShown(project.tasks[i])
    /\ LogRoom(2)
    /\ isSplitting' = TRUE
    /\ project' = SplitStartUpdate(project, project.tasks[i])
    /\ splitCalls' = splitCalls \cup {project.tasks[i]}
    /\ persisted' = AutoSave(isLoadingStorage, project', persisted)
    /\ lastAlert' = NoAlert
    /\ UNCHANGED <<isLoadingStorage, isExecuting, isGenerating, execCalls,
                   editingTask, uuids, planName, errorMsg>>

\* mutant: every subtask inherits the dependencies of the split task
NewTasks_allInherit(task, subTasksRaw, base) ==
    [index \in 1..Len(subTasksRaw) |->
        [id |-> base + index,
         title |-> subTasksRaw[index].title,
         description |-> subTasksRaw[index].description,
         agentRole |-> IF subTasksRaw[index].agentRole = "" THEN "developer"
                       ELSE subTasksRaw[index].agentRole,
         status |-> "pending",
         dependencies |-> task.dependencies,
         output |-> NoOutput]]

\* mutant: the subtasks after the first depend on nothing
NewTasks_noChain(task, subTasksRaw, base) ==
    [index \in 1..Len(subTasksRaw) |->
        [id |-> base + index,
         title |-> subTasksRaw[index].title,
         description |-> subTasksRaw[index].description,
         agentRole |-> IF subTasksRaw[index].agentRole = "" THEN "developer"
                       ELSE subTasksRaw[index].agentRole,
         status |-> "pending",
         dependencies |-> IF index = 1 THEN task.dependencies ELSE <<>>,
         output |-> NoOutput]]

\* mutant: the first subtask waits for the last one as well
NewTasks_closedChain(task, subTasksRaw, base) ==
    [index \in 1..Len(subTasksRaw) |->
        [id |-> base + index,
         title |-> subTasksRaw[index].title,
         description |-> subTasksRaw[index].description,
         agentRole |-> IF subTasksRaw[index].agentRole = "" THEN "developer"
                       ELSE subTasksRaw[index].agentRole,
         status |-> "pending",
         dependencies |-> IF index = 1
                          THEN Append(task.dependencies, base + Len(subTasksRaw))
                          ELSE <<base + index - 1>>,
         output |-> NoOutput]]

\* the subtasks built from the collaborator's answer; ids are base+1, base+2, ...
NewTasks(task, subTasksRaw, base) ==
    [index \in 1..Len(subTasksRaw) |->
        [id |-> base + index,
         title |-> subTasksRaw[index].title,
         description |-> subTasksRaw[index].description,
         agentRole |-> IF subTasksRaw[index].agentRole = "" THEN "developer"
                       ELSE subTasksRaw[index].agentRole,
         status |-> "pending",
         dependencies |-> IF index = 1 THEN task.dependencies
                          ELSE <<base + index - 1>>,
         output |-> NoOutput]]

\* mutant: the split task is removed and its dependents are left as they are
Rewire_noRepoint(tasks, task, lastNewTaskId) ==
    SelectSeq(tasks, LAMBDA t : t.id # task.id)

\* prev.tasks without the split task, its id replaced by lastNewTaskId
Rewire(tasks, task, lastNewTaskId) ==
    MapSeq(SelectSeq(tasks, LAMBDA t : t.id # task.id),
           LAMBDA t : IF task.id \in Range(t.dependencies)
                      THEN [t EXCEPT !.dependencies =
                              MapSeq(t.dependencies,
                                     LAMBDA d : IF d = task.id THEN lastNewTaskId ELSE d)]
                      ELSE t)

\* mutant: the subtasks are put in front of the remaining tasks
SplitSuccessUpdate_prepends(prev, task, subTasksRaw, base) ==
    IF ~prev.present THEN prev
    ELSE LET newTasks == NewTasks(task, subTasksRaw, base)
             lastNewTaskId == newTasks[Len(newTasks)].id
         IN  [prev EXCEPT
                !.tasks = newTasks \o Rewire(prev.tasks, task, lastNewTaskId),
                !.activityLog = Append(@, LogEntry(task.id, task.title, "split",
                                                   "Successfully split", Len(newTasks)))]

\* the updater after decomposeTask returned a non-empty answer
SplitSuccessUpdate(prev, task, subTasksRaw, base) ==
    IF ~prev.present THEN prev
    ELSE LET newTasks == NewTasks(task, subTasksRaw, base)
             lastNewTaskId == newTasks[Len(newTasks)].id
         IN  [prev EXCEPT
                !.tasks = Rewire(prev.tasks, task, lastNewTaskId) \o newTasks,
                !.activityLog = Append(@, LogEntry(task.id, task.title, "split",
                                                   "Successfully split", Len(newTasks)))]

\* decomposeTask of an outstanding call returns n >= 1 subtasks
SplitSuccess(task, n) ==
    /\ task \in splitCalls
    /\ n >= 1
    /\ uuids + n <= MaxNewIds
    /\ project' = SplitSuccessUpdate(project, task, RawSubtasks(n), IdBase + uuids)
    /\ uuids' = uuids + n
    /\ isSplitting' = FALSE
    /\ splitCalls' = splitCalls \ {task}
    /\ persisted' = AutoSave(isLoadingStorage, project', persisted)
    /\ lastAlert' = NoAlert
    /\ UNCHANGED <<isLoadingStorage, isExecuting, isGenerating, execCalls,
                   editingTask, planName, errorMsg>>

\* mutant: a failing split still removes its task from the list
SplitFail_removesTask(task, msg) ==
    /\ task \in splitCalls
    /\ lastAlert' = <<"Error splitting task: ", msg>>
    /\ isSplitting' = FALSE
    /\ splitCalls' = splitCalls \ {task}
    /\ project' = IF ~project.present THEN project
                  ELSE [project EXCEPT
                          !.tasks = SelectSeq(@, LAMBDA t : t.id # task.id)]
    /\ persisted' = AutoSave(isLoadingStorage, project', persisted)
    /\ UNCHANGED <<isLoadingStorage, isExecuting, isGenerating,
                   execCalls, editingTask, uuids, planName, errorMsg>>

\* decomposeTask of an outstanding call throws msg, or returns no subtask and
\* handleSplitTask throws "AI returned no subtasks."
SplitFail(task, msg) ==
    /\ task \in splitCalls
    /\ lastAlert' = <<"Error splitting task: ", msg>>
    /\ isSplitting' = FALSE
    /\ splitCalls' = splitCalls \ {task}
    /\ UNCHANGED <<isLoadingStorage, project, persisted, isExecuting, isGenerating,
                   execCalls, editingTask, uuids, planName, errorMsg>>

\* ------------------------------------------------------------ handleEditTask
\* mutant: the edit also rewrites the title in the log entries of the task
handleEditTask_rewritesLog(prev, taskId, newTitle, newDesc) ==
    IF ~prev.present THEN prev
    ELSE [prev EXCEPT
            !.tasks = MapSeq(prev.tasks,
                        LAMBDA t : IF t.id = taskId
                                   THEN [t EXCEPT !.title = newTitle,
                                                  !.description = newDesc]
                                   ELSE t),
            !.activityLog = MapSeq(prev.activityLog,
                              LAMBDA e : IF e.taskId = taskId
                                         THEN [e EXCEPT !.taskTitle = newTitle]
                                         ELSE e)]

handleEditTask(prev, taskId, newTitle, newDesc) ==
    IF ~prev.present THEN prev
    ELSE [prev EXCEPT
            !.tasks = MapSeq(prev.tasks,
                        LAMBDA t : IF t.id = taskId
                                   THEN [t EXCEPT !.title = newTitle,
                                                  !.description = newDesc]
                                   ELSE t)]

\* the explored sessions edit one task at a time: the modal is opened while
\* no task carries a text of EditTexts
NoEditedTitle(tasks) == \A j \in 1..Len(tasks) : tasks[j].title \notin EditTexts

\* click on the pencil of the card of tasks[i]: openEdit
ClickEdit(i) ==
    /\ ~isLoadingStorage
    /\ project.present
    /\ i \in 1..Len(project.tasks)
    /\ SplitEditShown(project.tasks[i])
    /\ NoEditedTitle(project.tasks)
    /\ editingTask' = project.tasks[i].id
    /\ lastAlert' = NoAlert
    /\ UNCHANGED <<isLoadingStorage, project, persisted, isExecuting, isSplitting,
                   isGenerating, execCalls, splitCalls, uuids, planName,
                   errorMsg>>

\* Save Changes of the edit modal: handleSaveEdit
SaveEdit(text) ==
    /\ ~isLoadingStorage
    /\ editingTask # NoTask
    /\ project' = handleEditTask(project, editingTask, text, text)
    /\ editingTask' = NoTask
    /\ persisted' = AutoSave(isLoadingStorage, project', persisted)
    /\ lastAlert' = NoAlert
    /\ UNCHANGED <<isLoadingStorage, isExecuting, isSplitting, isGenerating,
                   execCalls, splitCalls, uuids, planName, errorMsg>>

\* the X of the edit modal
CancelEdit ==
    /\ ~isLoadingStorage
    /\ editingTask # NoTask
    /\ editingTask' = NoTask
    /\ lastAlert' = NoAlert
    /\ UNCHANGED <<isLoadingStorage, project, persisted, isExecuting, isSplitting,
                   isGenerating, execCalls, splitCalls, uuids, planName,
                   errorMsg>>

\* ------------------------------------------------------------------ packages
handleAddPackage(prev, pkg) ==
    IF ~prev.present THEN prev
    ELSE IF pkg \in Range(prev.packages) THEN prev
    ELSE [prev EXCEPT !.packages = Append(@, pkg)]

handleRemovePackage(prev, pkg) ==
    IF ~prev.present THEN prev
    ELSE [prev EXCEPT !.packages = SelectSeq(@, LAMBDA q : q # pkg)]

AddPackage(pkg) ==
    /\ ~isLoadingStorage
    /\ project.present
    /\ project' = handleAddPackage(project, pkg)
    /\ persisted' = AutoSave(isLoadingStorage, project', persisted)
    /\ lastAlert' = NoAlert
    /\ UNCHANGED <<isLoadingStorage, isExecuting, isSplitting, isGenerating,
                   execCalls, splitCalls, editingTask, uuids, planName,
                   errorMsg>>

RemovePackage(pkg) ==
    /\ ~isLoadingStorage
    /\ project.present
    /\ pkg \in Range(project.packages)
    /\ project' = handleRemovePackage(project, pkg)
    /\ persisted' = AutoSave(isLoadingStorage, project', persisted)
    /\ lastAlert' = NoAlert
    /\ UNCHANGED <<isLoadingStorage, isExecuting, isSplitting, isGenerating,
                   execCalls, splitCalls, editingTask, uuids, planName,
                   errorMsg>>

\* ---------------------------------------------------------- handleFileUpdate
handleFileUpdate(prev, path, newContent) ==
    IF ~prev.present THEN prev
    ELSE [prev EXCEPT
            !.files = MapSeq(prev.files,
                        LAMBDA f : IF f.path = path
                                   THEN [f EXCEPT !.content = newContent] ELSE f)]

\* typing in the code editor with the file at files[i] selected
FileUpdate(i, newContent) ==
    /\ ~isLoadingStorage
    /\ project.present
    /\ i \in 1..Len(project.files)
    /\ project.files[i].content # newContent
    /\ project' = handleFileUpdate(project, project.files[i].path, newContent)
    /\ persisted' = AutoSave(isLoadingStorage, project', persisted)
    /\ lastAlert' = NoAlert
    /\ UNCHANGED <<isLoadingStorage, isExecuting, isSplitting, isGenerating,
                   execCalls, splitCalls, editingTask, uuids, planName,
                   errorMsg>>

\* mutant: the fix task depends on the first completed task of the list
FixDependencies_first(tasks) ==
    LET completedTasks == SelectSeq(tasks, LAMBDA t : t.status = "completed")
    IN  IF Len(completedTasks) > 0 THEN <<completedTasks[1].id>> ELSE <<>>

\* -------------------------------------------------------- handleAutoFixError
\* the dependencies of the fix task: the last completed task of the list
FixDependencies(tasks) ==
    LET completedTasks == SelectSeq(tasks, LAMBDA t : t.status = "completed")
    IN  IF Len(completedTasks) > 0
        THEN <<completedTasks[Len(completedTasks)].id>> ELSE <<>>

FixTask(tasks, id) ==
    [id |-> id, title |-> "Fix Runtime Error", description |-> "Fix Runtime Error",
     agentRole |-> "developer", status |-> "pending",
     dependencies |-> FixDependencies(tasks), output |-> NoOutput]

\* Auto-Fix with AI of the preview's runtime error panel
AutoFixError ==
    /\ ~isLoadingStorage
    /\ project.present
    /\ uuids < MaxNewIds
    /\ LogRoom(1)
    /\ LET fixTask == FixTask(project.tasks, IdBase + uuids + 1)
       IN  /\ project' = [project EXCEPT
                            !.tasks = Append(@, fixTask),
                            !.activityLog = Append(@, LogEntry(fixTask.id, fixTask.title,
                                                               "split", "Self-Healing", 0))]
    /\ uuids' = uuids + 1
    /\ persisted' = AutoSave(isLoadingStorage, project', persisted)
    /\ lastAlert' = NoAlert
    /\ UNCHANGED <<isLoadingStorage, isExecuting, isSplitting, isGenerating,
                   execCalls, splitCalls, editingTask, planName, errorMsg>>

\* ---------------------------------------------------------------------- Next
\* the task list never grows beyond the longest plan plus the fresh ids
MaxTasks == 3 + MaxNewIds

\* one project lifetime on the task graph: startup and restart, plan generation
\* by the Create button, execution, split, edit and fix-task injection
Next ==
    \/ Load
    \/ Reload
    \/ CreateStart
    \/ \E name \in PlanNames : CreateDone(name)
    \/ CreateFail
    \/ \E i \in 1..MaxTasks : ClickExecute(i)
    \/ ClickAutoPilot
    \/ \E task \in execCalls, output \in Outputs : ExecSuccess(task, output)
    \/ \E task \in execCalls, msg \in ErrMsgs : ExecFail(task, msg)
    \/ \E i \in 1..MaxTasks : ClickSplit(i)
    \/ \E task \in splitCalls, n \in 1..MaxSubtasks : SplitSuccess(task, n)
    \/ \E task \in splitCalls, msg \in SplitErrMsgs : SplitFail(task, msg)
    \/ \E i \in 1..MaxTasks : ClickEdit(i)
    \/ \E text \in EditTexts : SaveEdit(text)
    \/ CancelEdit
    \/ AutoFixError

Spec == Init /\ [][Next]_vars

\* the package manager and the code editor next to executions of the chain plan
NextAux ==
    \/ Load
    \/ Reload
    \/ CreateStart
    \/ CreateDone("chain")
    \/ ClickAutoPilot
    \/ \E task \in execCalls, output \in AuxOutputs : ExecSuccess(task, output)
    \/ \E task \in execCalls, msg \in ErrMsgs : ExecFail(task, msg)
    \/ \E pkg \in PkgNames : AddPackage(pkg)
    \/ \E pkg \in PkgNames : RemovePackage(pkg)
    \/ \E i \in 1..2, c \in UserContents : FileUpdate(i, c)

SpecAux == Init /\ [][NextAux]_vars

\* executions and splits, splits of subtasks included, of the star plan
NextChain ==
    \/ Load
    \/ CreateStart
    \/ CreateDone("star")
    \/ \E i \in 1..MaxTasks : ClickExecute(i)
    \/ ClickAutoPilot
    \/ \E task \in execCalls, output \in Outputs : ExecSuccess(task, output)
    \/ \E task \in execCalls, msg \in ErrMsgs : ExecFail(task, msg)
    \/ \E i \in 1..MaxTasks : ClickSplit(i)
    \/ \E task \in splitCalls, n \in 1..MaxSubtasks : SplitSuccess(task, n)
    \/ \E task \in splitCalls, msg \in SplitErrMsgs : SplitFail(task, msg)

SpecChain == Init /\ [][NextChain]_vars

\* the task graph of the plan in which two tasks carry the same id
NextIds ==
    \/ Load
    \/ Reload
    \/ CreateStart
    \/ CreateDone("dup")
    \/ \E i \in 1..MaxTasks : ClickExecute(i)
    \/ ClickAutoPilot
    \/ \E task \in execCalls, output \in Outputs : ExecSuccess(task, output)
    \/ \E task \in execCalls, msg \in ErrMsgs : ExecFail(task, msg)
    \/ \E i \in 1..MaxTasks : ClickSplit(i)
    \/ \E task \in splitCalls, n \in 1..MaxSubtasks : SplitSuccess(task, n)
    \/ \E task \in splitCalls, msg \in SplitErrMsgs : SplitFail(task, msg)
    \/ \E i \in 1..MaxTasks : ClickEdit(i)
    \/ \E text \in EditTexts : SaveEdit(text)
    \/ CancelEdit
    \/ \E pkg \in PkgNames : AddPackage(pkg)
    \/ \E pkg \in PkgNames : RemovePackage(pkg)
    \/ AutoFixError

SpecIds == Init /\ [][NextIds]_vars

\* a project is reset and a plan of ResetPlans generated in its place while
\* calls of the reset project may still be outstanding
NextReset ==
    \/ Load
    \/ ResetProject
    \/ CreateStart
    \/ \E name \in ResetPlans : CreateDone(name)
    \/ CreateFail
    \/ \E i \in 1..MaxTasks : ClickExecute(i)
    \/ ClickAutoPilot
    \/ \E task \in execCalls, output \in Outputs : ExecSuccess(task, output)
    \/ \E task \in execCalls, msg \in ErrMsgs : ExecFail(task, msg)
    \/ \E i \in 1..MaxTasks : ClickSplit(i)
    \/ \E task \in splitCalls, n \in 1..MaxSubtasks : SplitSuccess(task, n)
    \/ \E task \in splitCalls, msg \in SplitErrMsgs : SplitFail(task, msg)

SpecReset == Init /\ [][NextReset]_vars

\* every kind of update next to the executions and splits of the chain plan:
\* edits, package changes, editor changes and fix-task injection
NextConc ==
    \/ Load
    \/ CreateStart
    \/ CreateDone("chain")
    \/ \E i \in 1..MaxTasks : ClickExecute(i)
    \/ ClickAutoPilot
    \/ \E task \in execCalls, output \in ConcOutputs : ExecSuccess(task, output)
    \/ \E task \in execCalls, msg \in ErrMsgs : ExecFail(task, msg)
    \/ \E i \in 1..MaxTasks : ClickSplit(i)
    \/ \E task \in splitCalls, n \in 1..MaxSubtasks : SplitSuccess(task, n)
    \/ \E task \in splitCalls, msg \in SplitErrMsgs : SplitFail(task, msg)
    \/ \E i \in 1..MaxTasks : ClickEdit(i)
    \/ \E text \in EditTexts : SaveEdit(text)
    \/ CancelEdit
    \/ \E pkg \in ConcPkgNames : AddPackage(pkg)
    \/ \E pkg \in ConcPkgNames : RemovePackage(pkg)
    \/ \E i \in 1..3, c \in UserContents : FileUpdate(i, c)
    \/ AutoFixError

SpecConc == Init /\ [][NextConc]_vars

\* the executor collaborator answers an outstanding call, with a text or an error
ExecAnswer ==
    \E task \in execCalls :
        \/ \E output \in Outputs : ExecSuccess(task, output)
        \/ \E msg \in ErrMsgs : ExecFail(task, msg)

\* the decomposition collaborator answers an outstanding call
SplitAnswer ==
    \E task \in splitCalls :
        \/ \E n \in 1..MaxSubtasks : SplitSuccess(task, n)
        \/ \E msg \in SplitErrMsgs : SplitFail(task, msg)

\* executions and splits of the chain plan and of the loaded project, with
\* collaborators that answer every call they are given
NextLive ==
    \/ Load
    \/ CreateStart
    \/ CreateDone("chain")
    \/ \E i \in 1..MaxTasks : ClickExecute(i)
    \/ ClickAutoPilot
    \/ ExecAnswer
    \/ \E i \in 1..MaxTasks : ClickSplit(i)
    \/ SplitAnswer

SpecLive ==
    Init /\ [][NextLive]_vars /\ WF_vars(ExecAnswer) /\ WF_vars(SplitAnswer)

\* the executor collaborator answers an outstanding call with a text
ExecSucceeds ==
    \E task \in execCalls, output \in Outputs : ExecSuccess(task, output)

\* click on the scissors of a card while fresh ids are left for the subtasks
ProgressSplit(i) == uuids < MaxNewIds /\ ClickSplit(i)

\* the decomposition collaborator answers an outstanding call with subtasks
SplitSucceeds ==
    \E task \in splitCalls, n \in 1..MaxSubtasks : SplitSuccess(task, n)

\* the ladder plan run to its end: executions that all succeed, repeated
\* clicks on Auto-Pilot while it is shown, and finitely many splits
NextProgress ==
    \/ Load
    \/ CreateStart
    \/ CreateDone("ladder")
    \/ \E i \in 1..MaxTasks : ClickExecute(i)
    \/ ClickAutoPilot
    \/ ExecSucceeds
    \/ \E i \in 1..MaxTasks : ProgressSplit(i)
    \/ SplitSucceeds

SpecProgress ==
    /\ Init /\ [][NextProgress]_vars
    /\ WF_vars(ClickAutoPilot) /\ WF_vars(ExecSucceeds) /\ WF_vars(SplitSucceeds)

\* ================================================================== claims
Last(seq) == seq[Len(seq)]

TaskIds(tasks) == {tasks[i].id : i \in 1..Len(tasks)}

\* the definition of readiness of the specification: pending, and every
\* dependency is the id of a completed task of the list
SpecReady(task, tasks) ==
    /\ task.status = "pending"
    /\ \A d \in Range(task.dependencies) :
          \E j \in 1..Len(tasks) : tasks[j].id = d /\ tasks[j].status = "completed"

\* C1: in every reachable state a task is reported ready, by the TaskCard
\* condition and by the Auto-Pilot list, if and only if it is pending and each
\* of its dependencies is the id of a completed task of the current list; a
\* dependency that names no task makes it not ready.
C1_ReadyIffDepsCompleted ==
    project.present =>
        /\ \A i \in 1..Len(project.tasks) :
              /\ isReady(project.tasks[i], project.tasks)
                    <=> SpecReady(project.tasks[i], project.tasks)
              /\ (\E d \in Range(project.tasks[i].dependencies) :
                      d \notin TaskIds(project.tasks))
                    => ~isReady(project.tasks[i], project.tasks)
        /\ pendingReadyTasks(project.tasks)
              = SelectSeq(project.tasks, LAMBDA t : SpecReady(t, project.tasks))

\* a pending task whose only unresolved dependency names no task is not
\* ready, next to a task that is ready through a completed dependency
C1_Witness ==
    /\ project.present
    /\ \E i \in 1..Len(project.tasks) :
          /\ project.tasks[i].status = "pending"
          /\ \E d \in Range(project.tasks[i].dependencies) : d \notin TaskIds(project.tasks)
          /\ \A d \in Range(project.tasks[i].dependencies) :
                d \in TaskIds(project.tasks) => DepCompleted(project.tasks, d)
          /\ ~isReady(project.tasks[i], project.tasks)
    /\ \E i \in 1..Len(project.tasks) :
          /\ project.tasks[i].dependencies # <<>>
          /\ isReady(project.tasks[i], project.tasks)

\* ---- steps of a split, recognised by their effect
\* a decomposeTask call is issued
SplitStartStep == \E t \in splitCalls' : t \notin splitCalls

\* an outstanding decomposeTask call ends while the application keeps running
SplitEndStep == (\E t \in splitCalls : t \notin splitCalls') /\ ~isLoadingStorage'

\* the call that ends in a SplitEndStep
EndedSplit == CHOOSE t \in splitCalls : t \notin splitCalls'

\* the success entry of a split is appended
SplitSuccessStep ==
    /\ SplitEndStep
    /\ project'.present
    /\ Len(project'.activityLog) = Len(project.activityLog) + 1
    /\ Last(project'.activityLog).details.kind = "Successfully split"

\* the subtask chain of a split of T into n subtasks, in the list post
ChainWired(T, post, n) ==
    LET m == Len(post)
    IN  /\ m >= n
        /\ post[m - n + 1].dependencies = T.dependencies
        /\ \A i \in 2..n : post[m - n + i].dependencies = <<post[m - n + i - 1].id>>

\* every task of pre that depended on T has, in post, the id of the last
\* subtask at the positions where T's id was
Repointed(T, pre, post, n) ==
    \A k \in 1..Len(pre) :
        (pre[k].id # T.id /\ T.id \in Range(pre[k].dependencies)) =>
            \E j \in 1..(Len(post) - n) :
                /\ post[j].id = pre[k].id
                /\ Len(post[j].dependencies) = Len(pre[k].dependencies)
                /\ \A q \in 1..Len(pre[k].dependencies) :
                      post[j].dependencies[q] =
                          IF pre[k].dependencies[q] = T.id THEN Last(post).id
                          ELSE pre[k].dependencies[q]

C3_FailedSplitLeavesGraph ==
    [][/\ SplitStartStep =>
            \E t \in splitCalls' \ splitCalls :
                /\ project'.tasks = project.tasks
                /\ project'.files = project.files
                /\ project'.packages = project.packages
                /\ project'.activityLog =
                      Append(project.activityLog,
                             LogEntry(t.id, t.title, "split", "Decomposing", 0))
       /\ (SplitEndStep /\ ~SplitSuccessStep) =>
            /\ project' = project
            /\ persisted' = persisted
            /\ \E msg \in SplitErrMsgs : lastAlert' = <<"Error splitting task: ", msg>>
       /\ SplitSuccessStep =>
            /\ Last(project'.activityLog).details.n >= 1
            /\ lastAlert' = NoAlert]_vars

\* a split has just failed on an empty answer: the alert is up, the task is
\* still in the list and the log holds the entry of the attempt
C3_Witness ==
    /\ lastAlert = <<"Error splitting task: ", "AI returned no subtasks.">>
    /\ project.present
    /\ \E k \in 1..Len(project.activityLog) :
          /\ project.activityLog[k].details.kind = "Decomposing"
          /\ project.activityLog[k].taskId \in TaskIds(project.tasks)
          /\ \A q \in 1..Len(project.activityLog) :
                project.activityLog[q].details.kind # "Successfully split"

\* C4: every task, in memory and in storage, has an output if and only if
\* its status is completed.
C4_OutputIffCompleted ==
    /\ project.present =>
          \A i \in 1..Len(project.tasks) :
              (project.tasks[i].output # NoOutput) <=> (project.tasks[i].status = "completed")
    /\ persisted.present =>
          \A i \in 1..Len(persisted.tasks) :
              (persisted.tasks[i].output # NoOutput) <=> (persisted.tasks[i].status = "completed")

\* one task has completed with its output and another has failed without one
C4_Witness ==
    /\ project.present
    /\ \E i, j \in 1..Len(project.tasks) :
          /\ project.tasks[i].status = "completed" /\ project.tasks[i].output # NoOutput
          /\ project.tasks[j].status = "failed" /\ project.tasks[j].output = NoOutput

\* ---- the execution events of the log
\* position of the last entry of status st for task id, 0 if there is none
LastEvent(log, id, st) ==
    IF \E k \in 1..Len(log) : log[k].taskId = id /\ log[k].status = st
    THEN CHOOSE k \in 1..Len(log) :
            /\ log[k].taskId = id /\ log[k].status = st
            /\ \A q \in (k+1)..Len(log) : ~(log[q].taskId = id /\ log[q].status = st)
    ELSE 0

\* the log holds a started entry of task id with no later completed or failed
\* entry of that task
StartedAndOpen(log, id) ==
    /\ LastEvent(log, id, "started") > 0
    /\ LastEvent(log, id, "completed") < LastEvent(log, id, "started")
    /\ LastEvent(log, id, "failed") < LastEvent(log, id, "started")

\* the state right after the catch block of handleExecuteTask ran
ExecJustFailed ==
    /\ lastAlert # NoAlert
    /\ lastAlert[1] = "Task execution failed: "

\* C5: when the executor call of a started execution has just thrown, the
\* last log entry is a failed event carrying the error message, its task is in
\* the list with status failed and no output, and recovery leaves it failed.
C5_FailedExecution ==
    ExecJustFailed =>
        /\ project.present
        /\ Len(project.activityLog) > 0
        /\ LET e == Last(project.activityLog)
           IN  /\ e.status = "failed"
               /\ e.details.kind = lastAlert[2]
               /\ \E i \in 1..Len(project.tasks) :
                     /\ project.tasks[i].id = e.taskId
                     /\ project.tasks[i].status = "failed"
                     /\ project.tasks[i].output = NoOutput
                     /\ Recover(project).tasks[i] = project.tasks[i]

\* ---- startup, recognised by its effect
\* the init effect loads a stored project
LoadStep == isLoadingStorage /\ ~isLoadingStorage' /\ persisted.present

\* C6: loading a stored project yields its tasks in the stored order, each
\* in_progress task as the same task with status pending and every other task
\* unchanged, with the stored files, packages and log (empty where the stored
\* shape had none); no task is in_progress afterwards, the project saved again
\* is the recovered one, and recovering twice equals recovering once.
C6_RecoveryResetsInProgress ==
    [][LoadStep =>
        /\ project'.present
        /\ Len(project'.tasks) = Len(persisted.tasks)
        /\ \A i \in 1..Len(persisted.tasks) :
              /\ persisted.tasks[i].status = "in_progress"
                    => project'.tasks[i] = [persisted.tasks[i] EXCEPT !.status = "pending"]
              /\ persisted.tasks[i].status # "in_progress"
                    => project'.tasks[i] = persisted.tasks[i]
              /\ project'.tasks[i].status # "in_progress"
        /\ project'.files = persisted.files
        /\ "activityLog" \in DOMAIN persisted
              => project'.activityLog = persisted.activityLog
        /\ "packages" \in DOMAIN persisted
              => project'.packages = persisted.packages
        /\ persisted' = project'
        /\ Recover(project') = project']_vars

\* a project was loaded whose storage held a running and a failed task: the
\* running one is pending again with its started entry still open, the failed
\* one is failed
C6_Witness ==
    /\ ~isLoadingStorage
    /\ project.present
    /\ execCalls = {}
    /\ \E i, j \in 1..Len(project.tasks) :
          /\ project.tasks[i].status = "pending"
          /\ StartedAndOpen(project.activityLog, project.tasks[i].id)
          /\ project.tasks[j].status = "failed"

\* the plans whose dependencies name tasks of the plan other than the task itself
WellFormedPlans == {"chain", "fanin", "cycle", "legacy"}

\* C7: in a project generated from a plan without dangling and self
\* dependencies, every dependency of every task is the id of a task of the list.
C7_NoDanglingDependency ==
    (project.present /\ planName \in WellFormedPlans) =>
        \A i \in 1..Len(project.tasks) :
            Range(project.tasks[i].dependencies) \subseteq TaskIds(project.tasks)

\* a task of the plan and an injected fix task both depend on subtasks of a
\* split whose target is gone
C7_Witness ==
    /\ project.present
    /\ planName \in WellFormedPlans
    /\ \E k \in 1..Len(project.activityLog) :
          /\ project.activityLog[k].details.kind = "Successfully split"
          /\ project.activityLog[k].taskId \notin TaskIds(project.tasks)
    /\ \E j \in 1..Len(project.tasks) :
          /\ project.tasks[j].id < IdBase
          /\ \E d \in Range(project.tasks[j].dependencies) : d > IdBase

InProgress(tasks) == {i \in 1..Len(tasks) : tasks[i].status = "in_progress"}

\* C8: at most one executeTask call is outstanding and at most one task is
\* in_progress.
C8_SingleExecution ==
    /\ Cardinality(execCalls) <= 1
    /\ project.present => Cardinality(InProgress(project.tasks)) <= 1

\* C9: at most one decomposeTask call is outstanding.
C9_SingleSplit == Cardinality(splitCalls) <= 1

\* a split is in flight while an execution is in flight and another task
\* could be split
C9_Witness ==
    /\ Cardinality(splitCalls) = 1
    /\ isExecuting
    /\ project.present
    /\ \E i \in 1..Len(project.tasks) : isPending(project.tasks[i])

\* C10: while an executeTask call for a task is outstanding, the stored
\* project holds a started entry of that task with no later completed or
\* failed entry, and its recovery holds the task with status pending.
C10_CrashDuringExecution ==
    \A task \in execCalls :
        /\ persisted.present
        /\ StartedAndOpen(persisted.activityLog, task.id)
        /\ \E i \in 1..Len(persisted.tasks) :
              /\ persisted.tasks[i].id = task.id
              /\ Recover(persisted).tasks[i].status = "pending"

\* ---- steps of an execution, recognised by their effect
\* an executeTask call is issued
ExecStartStep == \E t \in execCalls' : t \notin execCalls

\* the task captured by the call issued in an ExecStartStep
StartedExec == CHOOSE t \in execCalls' : t \notin execCalls

\* C11: every execution starts on a task of the current list that is ready in
\* the state in which it starts (pending, every dependency the id of a
\* completed task), and marks that task in_progress; a click on Auto-Pilot
\* starts the first ready task in list order.
C11_StartsOnlyReady ==
    [][/\ ExecStartStep =>
            \E i \in 1..Len(project.tasks) :
                /\ project.tasks[i] = StartedExec
                /\ SpecReady(StartedExec, project.tasks)
                /\ project'.tasks[i] = [StartedExec EXCEPT !.status = "in_progress"]
       /\ ClickAutoPilot =>
            /\ ExecStartStep
            /\ \E i \in 1..Len(project.tasks) :
                  /\ project.tasks[i] = StartedExec
                  /\ SpecReady(project.tasks[i], project.tasks)
                  /\ \A j \in 1..(i - 1) : ~SpecReady(project.tasks[j], project.tasks)]_vars

\* an execution is in flight on a task that has a dependency, next to a
\* pending task that is not ready
C11_Witness ==
    /\ project.present
    /\ \E t \in execCalls :
          /\ t.dependencies # <<>>
          /\ \E i \in 1..Len(project.tasks) :
                /\ project.tasks[i].id = t.id
                /\ project.tasks[i].status = "in_progress"
    /\ \E j \in 1..Len(project.tasks) :
          /\ project.tasks[j].status = "pending"
          /\ ~isReady(project.tasks[j], project.tasks)

\* ---- the subtask chains, read from the log
\* positions of the success entries of the splits
SplitEntries(log) ==
    {k \in 1..Len(log) : log[k].details.kind = "Successfully split"}

\* number of fresh task ids handed out by the operations logged before entry k:
\* n by a successful split into n subtasks, one by a fix-task injection
RECURSIVE IdsBefore(_, _)
IdsBefore(log, k) ==
    IF k <= 1 THEN 0
    ELSE IdsBefore(log, k - 1)
           + (IF log[k - 1].details.kind = "Successfully split" THEN log[k - 1].details.n
              ELSE IF log[k - 1].details.kind = "Self-Healing" THEN 1 ELSE 0)

\* ids of the subtasks created by the split logged at entry k, in chain order
Chain(log, k) == [i \in 1..log[k].details.n |-> IdBase + IdsBefore(log, k) + i]

\* the execution of task id has returned
WasCompleted(log, id) ==
    \E q \in 1..Len(log) : log[q].taskId = id /\ log[q].status = "completed"

\* task id has completed, or was split again and every subtask of its own
\* chain is Done
RECURSIVE Done(_, _)
Done(log, id) ==
    \/ WasCompleted(log, id)
    \/ \E k \in SplitEntries(log) :
          /\ log[k].taskId = id
          /\ \A i \in 1..Len(Chain(log, k)) : Done(log, Chain(log, k)[i])

\* the id that stands for task id in the dependencies of the current list:
\* the id itself, or what stands for the last subtask of its chain
RECURSIVE Resolve(_, _)
Resolve(log, id) ==
    IF \E k \in SplitEntries(log) : log[k].taskId = id
    THEN Resolve(log, Last(Chain(log, CHOOSE k \in SplitEntries(log) : log[k].taskId = id)))
    ELSE id

\* the task of the plan that id stands for: id itself, or the root of the
\* chain that id is the last subtask of (NoTask when it is no last subtask)
RECURSIVE RootOf(_, _)
RootOf(log, id) ==
    IF id < IdBase THEN id
    ELSE IF \E k \in SplitEntries(log) : Last(Chain(log, k)) = id
    THEN RootOf(log, log[CHOOSE k \in SplitEntries(log) : Last(Chain(log, k)) = id].taskId)
    ELSE NoTask

\* dependencies of task id as the project was generated or first stored
PlanDeps(id) ==
    IF planName = "legacy" THEN LegacyStored.tasks[id].dependencies
    ELSE Plans[planName][id].dependencies

\* u depended on the task split at entry k: its dependencies hold the id that
\* stands for it, or u is a task of the plan that listed the task of the plan
\* it stands for
DependedOn(u, log, k) ==
    \/ Resolve(log, log[k].taskId) \in Range(u.dependencies)
    \/ /\ u.id < IdBase
       /\ RootOf(log, log[k].taskId) # NoTask
       /\ RootOf(log, log[k].taskId) \in Range(PlanDeps(u.id))

\* strict: the subtask itself has completed; otherwise: it is Done
Comp(log, id, strict) == IF strict THEN WasCompleted(log, id) ELSE Done(log, id)

\* what must have happened before u may be ready, for every split of the log
ChainHolds(u, log, strict) ==
    \A k \in SplitEntries(log) :
        LET c == Chain(log, k)
        IN  /\ DependedOn(u, log, k) => \A i \in 1..Len(c) : Comp(log, c[i], strict)
            /\ \A i \in 2..Len(c) : u.id = c[i] => Comp(log, c[i - 1], strict)

ReadyWaits(strict) ==
    project.present =>
        \A j \in 1..Len(project.tasks) :
            isReady(project.tasks[j], project.tasks)
                => ChainHolds(project.tasks[j], project.activityLog, strict)

\* C12 as claimed: after a split of T, a task that depended on T is ready, or
\* is started, only when every subtask of T's chain has completed, and subtask
\* i only when subtask i-1 has completed.
C12_Original ==
    [][/\ ReadyWaits(TRUE)
       /\ ReadyWaits(TRUE)'
       /\ ExecStartStep => ChainHolds(StartedExec, project.activityLog, TRUE)]_vars

\* C12 as amended: the same, where a subtask that was itself split before it
\* ran counts as completed once every subtask of its own chain does.
C12_ChainOrder ==
    [][/\ ReadyWaits(FALSE)
       /\ ReadyWaits(FALSE)'
       /\ ExecStartStep => ChainHolds(StartedExec, project.activityLog, FALSE)]_vars

\* a subtask was split again before it ran, the subtask that replaced it has
\* completed, and a task of the plan that depended on the split task is ready
C12_Witness ==
    /\ project.present
    /\ \E k \in SplitEntries(project.activityLog) :
          /\ project.activityLog[k].taskId < IdBase
          /\ \E i \in 1..Len(Chain(project.activityLog, k)) :
                /\ ~WasCompleted(project.activityLog, Chain(project.activityLog, k)[i])
                /\ Done(project.activityLog, Chain(project.activityLog, k)[i])
          /\ \E j \in 1..Len(project.tasks) :
                /\ project.tasks[j].id < IdBase
                /\ isReady(project.tasks[j], project.tasks)
                /\ DependedOn(project.tasks[j], project.activityLog, k)

\* no call is outstanding and the explored log has room for an execution
Idle ==
    /\ ~isLoadingStorage
    /\ project.present
    /\ ~isExecuting
    /\ ~isSplitting
    /\ LogRoom(2)

\* C13: a failed task is left for manual retry: whenever no call is
\* outstanding, the user can start the execution of a failed task again, by the
\* Execute button of its card or by Auto-Pilot.
C13_FailedCanRetry ==
    Idle =>
        \A i \in 1..Len(project.tasks) :
            project.tasks[i].status = "failed" =>
                \/ ENABLED ClickExecute(i)
                \/ /\ ENABLED ClickAutoPilot
                   /\ pendingReadyTasks(project.tasks)[1] = project.tasks[i]

\* ---- the Artifact Store
\* the success entry of an execution is appended
ExecSuccessStep ==
    /\ project.present /\ project'.present
    /\ Len(project'.activityLog) = Len(project.activityLog) + 1
    /\ Last(project'.activityLog).status = "completed"

\* the candidates of the execution that ended in an ExecSuccessStep
MergedBatch == extractFilesFromOutput(Last(project'.activityLog).details.n)

Paths(files) == {files[i].path : i \in 1..Len(files)}

\* the last block of the batch with the given path
LastBlock(batch, path) ==
    batch[CHOOSE b \in 1..Len(batch) :
            /\ batch[b].path = path
            /\ \A q \in (b + 1)..Len(batch) : batch[q].path # path]

\* positions of the blocks of the batch whose path is not in the store and
\* not in an earlier block, in batch order
NewBlocks(old, batch) ==
    SelectSeq([b \in 1..Len(batch) |-> b],
              LAMBDA b : /\ batch[b].path \notin Paths(old)
                         /\ \A q \in 1..(b - 1) : batch[q].path # batch[b].path)

UniquePaths(files) ==
    \A i, j \in 1..Len(files) : files[i].path = files[j].path => i = j

\* C14: merging the candidates of an execution keeps every entry of the store
\* at its position, replaced by the last candidate of the same path if there
\* is one, and appends the candidates of new paths in the order of their first
\* block with the content of their last block; the store holds one entry per
\* path afterwards.
C14_MergeOverwritesInPlace ==
    [][ExecSuccessStep =>
        LET old == project.files
            new == project'.files
            batch == MergedBatch
            added == NewBlocks(old, batch)
        IN  /\ Len(new) = Len(old) + Len(added)
            /\ \A i \in 1..Len(old) :
                  new[i] = IF old[i].path \in Paths(batch)
                           THEN LastBlock(batch, old[i].path) ELSE old[i]
            /\ \A j \in 1..Len(added) :
                  new[Len(old) + j] = LastBlock(batch, batch[added[j]].path)
            /\ UniquePaths(new)]_vars

\* a response that repeated app.js was merged first and a response holding
\* index.html second: app.js has the content of its later block and
\* index.html the content of the second response, at its first position
C14_Witness ==
    /\ project.present
    /\ project.files = <<File("app.js", 3), File("index.html", 4)>>
    /\ \E k \in 1..Len(project.activityLog) :
          /\ project.activityLog[k].details.kind = "output"
          /\ project.activityLog[k].details.n = 1
          /\ \E q \in (k + 1)..Len(project.activityLog) :
                /\ project.activityLog[q].details.kind = "output"
                /\ project.activityLog[q].details.n = 2

\* C15: in every reachable state the Artifact Store, in memory and in storage,
\* holds at most one entry per path.
C15_OneEntryPerPath ==
    /\ project.present => UniquePaths(project.files)
    /\ persisted.present => UniquePaths(persisted.files)

\* two responses, one of them repeating a path, were merged into a store of
\* three paths and a file was then changed in the editor
C15_Witness ==
    /\ project.present
    /\ Len(project.files) = 3
    /\ \E i \in 1..Len(project.files) : project.files[i].content \in UserContents
    /\ \E k \in 1..Len(project.activityLog) :
          /\ project.activityLog[k].details.kind = "output"
          /\ project.activityLog[k].details.n = 1
    /\ persisted = project

\* ---- task ids
UniqueIds(tasks) ==
    \A i, j \in 1..Len(tasks) : tasks[i].id = tasks[j].id => i = j

\* the tasks of the project as it was generated or first stored
OriginalTasks ==
    IF planName = "legacy" THEN LegacyStored.tasks ELSE Plans[planName]

\* every id a task of the project has or has had: the ids of the list, of the
\* original tasks and of the tasks named in the log
EverIds ==
    TaskIds(project.tasks) \cup TaskIds(OriginalTasks)
        \cup {project.activityLog[k].taskId : k \in 1..Len(project.activityLog)}

\* C16: in every reachable state no two tasks of the list share an id, and
\* the id of a task added by a split or a fix-task injection is an id that no
\* task of the project has or has had.
C16_UniqueTaskIds ==
    [][/\ project.present => UniqueIds(project.tasks)
       /\ project'.present => UniqueIds(project'.tasks)
       /\ (project.present /\ project'.present) =>
             \A id \in TaskIds(project'.tasks) \ TaskIds(project.tasks) :
                 id \notin EverIds]_vars

\* ---- task status
\* an outstanding executeTask call for task id ends in this step
ExecEndStep(id) == \E t \in execCalls : t \notin execCalls' /\ t.id = id

\* the ways in which the status of the task with the given id may differ
\* between two successive states of one task list
StatusStepOK(old, new, id) ==
    \/ old = new
    \/ /\ old = "pending" /\ new = "in_progress"
       /\ ExecStartStep /\ StartedExec.id = id
    \/ /\ old = "in_progress" /\ new \in {"completed", "failed"}
       /\ ExecEndStep(id)

\* C17: no step leaves a task with status blocked; between two states of the
\* task list a task's status changes only from pending to in_progress when
\* its execution starts and from in_progress to completed or failed when its
\* execution ends; loading changes in_progress to pending and nothing else;
\* a task that enters the list is pending; a completed task stays completed.
C17_StatusTransitions ==
    [][/\ project'.present =>
            \A j \in 1..Len(project'.tasks) : project'.tasks[j].status # "blocked"
       /\ (project.present /\ project'.present) =>
            \A j \in 1..Len(project'.tasks) :
                IF project'.tasks[j].id \in TaskIds(project.tasks)
                THEN \A i \in 1..Len(project.tasks) :
                        project.tasks[i].id = project'.tasks[j].id =>
                            StatusStepOK(project.tasks[i].status,
                                         project'.tasks[j].status,
                                         project.tasks[i].id)
                ELSE project'.tasks[j].status = "pending"
       /\ LoadStep =>
            \A i \in 1..Len(persisted.tasks) :
                project'.tasks[i].status =
                    IF persisted.tasks[i].status = "in_progress" THEN "pending"
                    ELSE persisted.tasks[i].status]_vars

\* ---- the Audit Log
\* a step that changes the tasks or the packages of the current project
MutationStep ==
    /\ project.present /\ project'.present
    /\ \/ project'.tasks # project.tasks
       \/ project'.packages # project.packages

\* log is the sequence old followed by at least n more entries
Extends(log, old, n) ==
    /\ Len(log) >= Len(old) + n
    /\ SubSeq(log, 1, Len(old)) = old

\* C18: every step by which an execution, a split, an edit or a package
\* change alters the tasks or the packages of the project appends at least
\* one entry to the log.
C18_EveryMutationLogged ==
    [][MutationStep => Extends(project'.activityLog, project.activityLog, 1)]_vars

\* C19: every step of a project's lifetime leaves the entries of the log as
\* they are, in their order, and adds entries at the end only; loading a
\* stored project yields its stored log. An entry keeps its taskTitle when its
\* task is edited or removed afterwards.
C19_LogAppendOnly ==
    [][/\ (project.present /\ project'.present) =>
            Extends(project'.activityLog, project.activityLog, 0)
       /\ (LoadStep /\ "activityLog" \in DOMAIN persisted) =>
            project'.activityLog = persisted.activityLog]_vars

\* the log holds an entry whose task has since been given another title and an
\* entry whose task has since been removed by a split
C19_Witness ==
    /\ project.present
    /\ \E k \in 1..Len(project.activityLog) :
          \E i \in 1..Len(project.tasks) :
              /\ project.tasks[i].id = project.activityLog[k].taskId
              /\ project.tasks[i].title \in EditTexts
              /\ project.activityLog[k].taskTitle \notin EditTexts
    /\ \E k \in 1..Len(project.activityLog) :
          /\ project.activityLog[k].taskId \notin TaskIds(project.tasks)
          /\ project.activityLog[k].details.kind = "Decomposing"

\* C20: once loading is over, the stored project is the project in memory
\* after every step: each mutation is followed by its save, and nothing is
\* stored while there is no project.
C20_PersistedEqualsMemory == ~isLoadingStorage => persisted = project

\* no call is outstanding, and the stored project holds an edited task, a
\* completed task with its output and the log of the execution
C20_Witness ==
    /\ ~isLoadingStorage
    /\ execCalls = {} /\ splitCalls = {}
    /\ persisted.present
    /\ persisted = project
    /\ \E i, j \in 1..Len(persisted.tasks) :
          /\ persisted.tasks[i].title \in EditTexts
          /\ persisted.tasks[j].status = "completed"
          /\ persisted.tasks[j].output \in Outputs
    /\ Len(persisted.activityLog) >= 2

\* ---- startup
\* a step of the init effect: loading ends
LoadEnds == isLoadingStorage /\ ~isLoadingStorage'

\* the application is opened again: the component state is the initial one
Restart ==
    /\ isLoadingStorage'
    /\ ~project'.present
    /\ execCalls' = {} /\ splitCalls' = {}
    /\ ~isExecuting' /\ ~isSplitting' /\ ~isGenerating'
    /\ editingTask' = NoTask

\* C21: load and recovery run once per start of the application: while
\* loading, no project is in memory, no call is outstanding and no modal is
\* open; the only step possible is the one that ends loading, which installs
\* the recovery of the stored project (or none) and starts no operation; once
\* loading is over the load cannot run again until the application is
\* restarted.
C21_LoadOnceBeforeOperations ==
    [][/\ isLoadingStorage =>
            /\ ~project.present
            /\ execCalls = {} /\ splitCalls = {}
            /\ ~isExecuting /\ ~isSplitting /\ ~isGenerating
            /\ editingTask = NoTask
            /\ LoadEnds
            /\ project' = IF persisted.present THEN Recover(persisted) ELSE NoProject
            /\ UNCHANGED <<execCalls, splitCalls, isExecuting, isSplitting,
                           isGenerating, editingTask, uuids>>
       /\ (ENABLED Load) <=> isLoadingStorage
       /\ (~isLoadingStorage /\ isLoadingStorage') => Restart]_vars

\* the stored project was loaded and recovered, and an execution of one of its
\* tasks was started afterwards
C21_Witness ==
    /\ ~isLoadingStorage
    /\ project.present
    /\ planName = "legacy"
    /\ \E t \in execCalls :
          StartedAndOpen(project.activityLog, t.id)

\* ---- edits
\* Save Changes of the edit modal changes the task list
EditStep ==
    /\ editingTask # NoTask /\ editingTask' = NoTask
    /\ project.present /\ project'.present
    /\ project'.tasks # project.tasks

\* C22: an edit is applied to one task of the list, which is pending when the
\* edit is applied, and changes the title and the description of that task
\* only: the list is otherwise the same, in the same order.
C22_EditOnlyPending ==
    [][EditStep =>
        \E i \in 1..Len(project.tasks) :
            /\ project.tasks[i].id = editingTask
            /\ project.tasks[i].status = "pending"
            /\ project'.tasks =
                  [project.tasks EXCEPT
                      ![i] = [@ EXCEPT !.title = project'.tasks[i].title,
                                       !.description = project'.tasks[i].description]]
            /\ UNCHANGED <<execCalls, splitCalls, uuids>>]_vars

\* ---- updates made while a call is outstanding
\* an outstanding executeTask call ends while the application keeps running
ExecEndsStep == (\E t \in execCalls : t \notin execCalls') /\ ~isLoadingStorage'

\* the call that ends in an ExecEndsStep
EndedExec == CHOOSE t \in execCalls : t \notin execCalls'

\* the paths written by the execution that ends in this step: those of its
\* extracted files when it succeeds, none when it fails
WrittenPaths ==
    IF ExecSuccessStep
    THEN Paths(extractFilesFromOutput(Last(project'.activityLog).details.n))
    ELSE {}

\* the step keeps what the project holds next to the task with the given id:
\* the packages, every file whose path is not written, every other task with
\* its title, description, role, status and output, and the log
KeepsUpdates(id, written) ==
    /\ project'.present
    /\ project'.packages = project.packages
    /\ Len(project'.files) >= Len(project.files)
    /\ \A i \in 1..Len(project.files) :
          project.files[i].path \notin written => project'.files[i] = project.files[i]
    /\ \A i \in 1..Len(project.tasks) :
          project.tasks[i].id # id =>
              \E j \in 1..Len(project'.tasks) :
                  project'.tasks[j] =
                      [project.tasks[i] EXCEPT !.dependencies = project'.tasks[j].dependencies]
    /\ Extends(project'.activityLog, project.activityLog, 0)

\* C23: the step that ends an execution or a split, by the collaborator's
\* answer or by its error, is applied to the project as it is at that moment:
\* every edit of another task, package change, fix task and editor change of a
\* path the execution does not write that was made since the call was issued
\* is in the project afterwards.
C23_NoLostUpdate ==
    [][/\ (ExecEndsStep /\ project.present) => KeepsUpdates(EndedExec.id, WrittenPaths)
       /\ (SplitEndStep /\ project.present) => KeepsUpdates(EndedSplit.id, {})]_vars

\* an execution of the loaded project has completed after a fix task was
\* injected during it; the project holds the fix task, an edited task, the
\* added package and the editor's content of a file the execution did not write
C23_Witness ==
    /\ project.present
    /\ planName = "legacy"
    /\ execCalls = {}
    /\ \E s, f, c \in 1..Len(project.activityLog) :
          /\ s < f /\ f < c
          /\ project.activityLog[s].status = "started"
          /\ project.activityLog[f].details.kind = "Self-Healing"
          /\ project.activityLog[c].status = "completed"
          /\ project.activityLog[c].taskId = project.activityLog[s].taskId
          /\ project.activityLog[f].taskId \in TaskIds(project.tasks)
    /\ \E i \in 1..Len(project.tasks) : project.tasks[i].title \in EditTexts
    /\ "lodash" \in Range(project.packages)
    /\ \E i \in 1..Len(project.files) :
          /\ project.files[i].path = "index.html"
          /\ project.files[i].content \in UserContents

\* ---- fix-task injection
\* the entry of a fix-task injection is appended
FixStep ==
    /\ project.present /\ project'.present
    /\ Len(project'.activityLog) = Len(project.activityLog) + 1
    /\ Last(project'.activityLog).details.kind = "Self-Healing"

\* the id of the completed task that is last in list order, as a list; empty
\* when no task is completed
LastCompleted(tasks) ==
    IF \E i \in 1..Len(tasks) : tasks[i].status = "completed"
    THEN <<tasks[CHOOSE i \in 1..Len(tasks) :
                    /\ tasks[i].status = "completed"
                    /\ \A j \in (i + 1)..Len(tasks) : tasks[j].status # "completed"].id>>
    ELSE <<>>

\* C24: fix-task injection appends one task at the end of the list, pending
\* and without output, with an id no task of the list has, whose dependencies
\* are the id of the last completed task in list order (none when no task is
\* completed), and appends one split-tagged entry naming the new task; the
\* existing tasks, the files and the packages are unchanged.
C24_FixTaskInjection ==
    [][/\ AutoFixError => FixStep
       /\ FixStep =>
            LET fixTask == Last(project'.tasks)
                e == Last(project'.activityLog)
            IN  /\ project'.tasks = Append(project.tasks, fixTask)
                /\ fixTask.status = "pending"
                /\ fixTask.output = NoOutput
                /\ fixTask.id \notin TaskIds(project.tasks)
                /\ fixTask.dependencies = LastCompleted(project.tasks)
                /\ project'.activityLog = Append(project.activityLog, e)
                /\ e.taskId = fixTask.id
                /\ e.taskTitle = fixTask.title
                /\ e.status = "split"
                /\ project'.files = project.files
                /\ project'.packages = project.packages]_vars

\* a fix task was injected when two tasks were completed: it is the last task
\* of the list and depends on the second of them
C24_Witness ==
    /\ project.present
    /\ Len(project.tasks) = 3
    /\ project.tasks[1].status = "completed"
    /\ project.tasks[2].status = "completed"
    /\ project.tasks[3].title = "Fix Runtime Error"
    /\ project.tasks[3].status = "pending"
    /\ project.tasks[3].dependencies = <<project.tasks[2].id>>
    /\ Last(project.activityLog).details.kind = "Self-Healing"
    /\ Last(project.activityLog).taskId = project.tasks[3].id

\* ---- task order
IdSeq(tasks) == [i \in 1..Len(tasks) |-> tasks[i].id]

\* positions of the tasks that are ready by the specification's definition
ReadyIdx(tasks) == {i \in 1..Len(tasks) : SpecReady(tasks[i], tasks)}

\* the k-th smallest member of a set of positions
Nth(S, k) == CHOOSE i \in S : Cardinality({j \in S : j < i}) = k - 1

ExecOutcome(t) ==
    /\ project'.present
    /\ Extends(project'.activityLog, project.activityLog, 1)
    /\ Last(project'.activityLog).taskId = t.id
    /\ Last(project'.activityLog).status \in {"completed", "failed"}
    /\ \E j \in 1..Len(project'.tasks) :
          /\ project'.tasks[j].id = t.id
          /\ project'.tasks[j].status = Last(project'.activityLog).status

\* a call leaves the outstanding calls only by its answer: an execution then
\* leaves its task completed or failed and clears isExecuting, a split clears
\* isSplitting
C26_EndsOnlyByAnswer ==
    [][/\ \A t \in execCalls \ execCalls' : ExecOutcome(t) /\ ~isExecuting'
       /\ \A t \in splitCalls \ splitCalls' : ~isSplitting']_vars

\* while a call is outstanding its in-flight flag is up
C26_InFlight ==
    [](/\ execCalls # {} => isExecuting
       /\ splitCalls # {} => isSplitting)

\* with collaborators that answer, every call ends and its flag is cleared
C26_Answered ==
    /\ (execCalls # {}) ~> (execCalls = {} /\ ~isExecuting)
    /\ (splitCalls # {}) ~> (splitCalls = {} /\ ~isSplitting)

\* C26: a call that was issued ends only by the collaborator's answer or
\* error: until then its in-flight flag stays up; when the collaborator
\* answers, a started execution leaves its task completed or failed and clears
\* isExecuting, and a started split clears isSplitting; and with collaborators
\* that answer every call, every started execution and split does end.
C26_RunsToCompletion ==
    C26_EndsOnlyByAnswer /\ C26_InFlight /\ C26_Answered

\* ---- plan generation
\* a call of generateProjectPlan ends while the application keeps running
CreateEndStep == isGenerating /\ ~isGenerating' /\ ~isLoadingStorage'

\* the messages shown when no project could be created
CreateErrors == {"The AI returned an empty plan.", "Invalid plan generated."}

NoDuplicates(seq) == \A i, j \in 1..Len(seq) : seq[i] = seq[j] => i = j

\* seq without the name pkg, the other names in their order
Without(seq, pkg) == SelectSeq(seq, LAMBDA q : q # pkg)

\* C28: in every state the package list of the project, the list taken from
\* the generated plan included, names no package twice; adding a name that is
\* present leaves the list unchanged, adding a new name appends it, removing a
\* name leaves the other names in their order, and no other step of a project
\* changes the list.
C28_PackagesDeduplicated ==
    [][/\ project.present => NoDuplicates(project.packages)
       /\ project'.present => NoDuplicates(project'.packages)
       /\ (project.present /\ project'.present) =>
            /\ \A pkg \in PkgNames :
                  /\ AddPackage(pkg) =>
                        project'.packages =
                            IF pkg \in Range(project.packages) THEN project.packages
                            ELSE Append(project.packages, pkg)
                  /\ RemovePackage(pkg) =>
                        project'.packages = Without(project.packages, pkg)
            /\ \/ project'.packages = project.packages
               \/ \E pkg \in PkgNames :
                     \/ project'.packages = Append(project.packages, pkg)
                     \/ project'.packages = Without(project.packages, pkg)]_vars

\* ---- the audit events of a split
\* entry k of the log is the success entry of a split whose start entry is in
\* the log before it, with no other split entry of the task between the two
StartPrecedes(log, k) ==
    \E j \in 1..(k - 1) :
        /\ log[j].taskId = log[k].taskId
        /\ log[j].details.kind = "Decomposing"
        /\ \A q \in (j + 1)..(k - 1) :
              ~(log[q].taskId = log[k].taskId /\ log[q].status = "split")

\* C29: the start of a split appends its start entry; a successful split
\* appends, in the step that rewrites the graph, the success entry naming the
\* task and the number of subtasks added; a failing split appends nothing;
\* so every success entry of the log is preceded by a start entry of the same
\* task, and a successful split has logged exactly these two split entries.
C29_SplitAuditEvents ==
    [][/\ (SplitStartStep /\ project.present) =>
            \E t \in splitCalls' \ splitCalls :
                project'.activityLog =
                    Append(project.activityLog,
                           LogEntry(t.id, t.title, "split", "Decomposing", 0))
       /\ (SplitEndStep /\ project.present) =>
            \/ /\ SplitSuccessStep
               /\ project'.activityLog =
                     Append(project.activityLog,
                            LogEntry(EndedSplit.id, EndedSplit.title, "split",
                                     "Successfully split",
                                     Cardinality(TaskIds(project'.tasks)
                                                   \ TaskIds(project.tasks))))
               /\ project'.tasks # project.tasks
            \/ /\ project'.activityLog = project.activityLog
               /\ project'.tasks = project.tasks
       /\ project'.present =>
            \A k \in SplitEntries(project'.activityLog) :
                StartPrecedes(project'.activityLog, k)]_vars

\* ---- dependency cycles
\* the dependencies of the tasks of the list that carry the given id
DepIds(tasks, id) ==
    UNION {Range(tasks[i].dependencies) : i \in {i \in 1..Len(tasks) : tasks[i].id = id}}

\* the ids reached from the set S by following dependencies up to k times
RECURSIVE Reach(_, _, _)
Reach(tasks, S, k) ==
    IF k = 0 THEN S
    ELSE Reach(tasks, S \cup UNION {DepIds(tasks, d) : d \in S}, k - 1)

\* the task with the given id depends on itself, directly or through other
\* tasks of the list
OnCycle(tasks, id) == id \in Reach(tasks, DepIds(tasks, id), Len(tasks))

\* C30: a task that is on a cycle of dependencies is pending and is not
\* reported ready, by its card or by the Auto-Pilot list; no execution starts
\* on it; and after every step of the project it is, while it is in the list,
\* still pending and on a cycle.
C30_CycleNeverReady ==
    [][project.present =>
        /\ \A i \in 1..Len(project.tasks) :
              OnCycle(project.tasks, project.tasks[i].id) =>
                  /\ project.tasks[i].status = "pending"
                  /\ ~isReady(project.tasks[i], project.tasks)
                  /\ project.tasks[i] \notin Range(pendingReadyTasks(project.tasks))
                  /\ project'.present =>
                        \A j \in 1..Len(project'.tasks) :
                            project'.tasks[j].id = project.tasks[i].id =>
                                /\ project'.tasks[j].status = "pending"
                                /\ OnCycle(project'.tasks, project'.tasks[j].id)
        /\ ExecStartStep => ~OnCycle(project.tasks, StartedExec.id)]_vars

\* ---- length of the details of a completed event
\* C31: the details of every completed event of the log, in memory and in
\* storage, is at most 300 characters long, whatever the length of the output
\* it was cut from.
C31_DetailsAtMost300 ==
    /\ project.present =>
          \A k \in 1..Len(project.activityLog) :
              project.activityLog[k].status = "completed" =>
                  project.activityLog[k].details.len <= DetailsLimit
    /\ (persisted.present /\ "activityLog" \in DOMAIN persisted) =>
          \A k \in 1..Len(persisted.activityLog) :
              persisted.activityLog[k].status = "completed" =>
                  persisted.activityLog[k].details.len <= DetailsLimit

\* ---- dependencies of started tasks
\* C32: in every reachable state every task that is in_progress or completed
\* has each of its dependencies naming a task of the list whose status is
\* completed.
C32_StartedDepsCompleted ==
    project.present =>
        \A i \in 1..Len(project.tasks) :
            project.tasks[i].status \in {"in_progress", "completed"} =>
                \A k \in 1..Len(project.tasks[i].dependencies) :
                    DepCompleted(project.tasks, project.tasks[i].dependencies[k])

\* ---- a split and an execution of the same task
\* C33: no execution starts on the task of an outstanding split; the task a
\* successful split removes is pending when it is removed, so no in_progress
\* or completed task leaves the list; and an execution that completes finds a
\* task with its id in the list.
C33_SplitExcludesExecution ==
    [][/\ ExecStartStep =>
            \A c \in splitCalls : c.id # StartedExec.id
       /\ SplitSuccessStep =>
            \A i \in 1..Len(project.tasks) :
                /\ project.tasks[i].id = EndedSplit.id =>
                      project.tasks[i].status = "pending"
                /\ project.tasks[i].id \notin TaskIds(project'.tasks) =>
                      project.tasks[i].status \notin {"in_progress", "completed"}
       /\ (ExecEndsStep /\ ExecSuccessStep) =>
            EndedExec.id \in TaskIds(project.tasks)]_vars

\* ---- acyclicity
\* no task of the list depends on itself, directly or through other tasks
Acyclic(tasks) == \A i \in 1..Len(tasks) : ~OnCycle(tasks, tasks[i].id)

NoDanglingRefs(tasks) ==
    \A i \in 1..Len(tasks) : Range(tasks[i].dependencies) \subseteq TaskIds(tasks)

\* no call is outstanding and no in-flight flag is up
NothingInFlight ==
    /\ ~isExecuting /\ ~isSplitting
    /\ execCalls = {} /\ splitCalls = {}

\* some task is pending in a graph that is acyclic and without dangling
\* references, no task has failed and nothing is in flight
ProgressCase ==
    /\ ~isLoadingStorage
    /\ project.present
    /\ Acyclic(project.tasks)
    /\ NoDanglingRefs(project.tasks)
    /\ \A i \in 1..Len(project.tasks) : project.tasks[i].status # "failed"
    /\ NothingInFlight
    /\ \E i \in 1..Len(project.tasks) : project.tasks[i].status = "pending"

\* some task is ready and Auto-Pilot is offered
SomeReady ==
    /\ Len(pendingReadyTasks(project.tasks)) > 0
    /\ \E i \in 1..Len(project.tasks) : SpecReady(project.tasks[i], project.tasks)
    /\ AutoPilotShown

AllCompleted ==
    /\ project.present
    /\ \A i \in 1..Len(project.tasks) : project.tasks[i].status = "completed"

\* C35 (safety part): whenever some task is pending in an acyclic graph
\* without dangling references, no task has failed and nothing is in flight,
\* at least one task is ready.
C35_SomeTaskReady == ProgressCase => SomeReady

\* C35: in a project whose graph is acyclic without dangling references and
\* whose executions all succeed, some task is ready whenever one is pending
\* and nothing is in flight, and with ready tasks executed again and again,
\* and finitely many splits in between, every task of the list is eventually
\* completed and stays so.
C35_Progress ==
    /\ [](ProgressCase => SomeReady)
    /\ (project.present /\ planName \in ProgressPlans) ~> []AllCompleted

\* the ladder plan was run to its end with a split in between: every task of
\* the list, the subtasks included, is completed and nothing is in flight
C35_Witness ==
    /\ AllCompleted
    /\ planName \in ProgressPlans
    /\ NothingInFlight
    /\ \E i \in 1..Len(project.tasks) : project.tasks[i].id > IdBase
    /\ \E k \in 1..Len(project.activityLog) :
          project.activityLog[k].details.kind = "Successfully split"

\* ---- in_progress and the execution in flight
\* C36: once loading is over, every task that is in_progress is the task of
\* an outstanding executeTask call and the isExecuting flag is up; while the
\* flag is down or no call is outstanding, no task is in_progress.
C36_InProgressOnlyInFlight ==
    (~isLoadingStorage /\ project.present) =>
        /\ \A i \in InProgress(project.tasks) :
              /\ isExecuting
              /\ \E c \in execCalls : c.id = project.tasks[i].id
        /\ (~isExecuting \/ execCalls = {}) => InProgress(project.tasks) = {}

\* the task that was stored in_progress was recovered as pending and started
\* again: it is in_progress, its call is outstanding and the flag is up
C36_Witness ==
    /\ ~isLoadingStorage
    /\ project.present
    /\ planName = "legacy"
    /\ isExecuting
    /\ \E i \in InProgress(project.tasks) :
          /\ \E c \in execCalls : c.id = project.tasks[i].id
          /\ \E j \in InProgress(LegacyStored.tasks) :
                LegacyStored.tasks[j].id = project.tasks[i].id

\* ---- calls that outlive their project
\* an executeTask call ends in a project whose log holds no started entry of
\* its task: the call was issued in a project that was reset since
LateExecEnd ==
    /\ ExecEndsStep
    /\ project.present
    /\ LastEvent(project.activityLog, EndedExec.id, "started") = 0

\* a decomposeTask call ends in a project whose log holds no split entry of
\* its task
LateSplitEnd ==
    /\ SplitEndStep
    /\ project.present
    /\ LastEvent(project.activityLog, EndedSplit.id, "split") = 0

\* C37: a call that was outstanding when its project was reset and that ends
\* after a new project was created leaves the new project as it is: tasks,
\* files, packages and log are unchanged, in memory and in storage.
C37_ResetIsolatesProjects ==
    [][(LateExecEnd \/ LateSplitEnd) =>
            /\ project' = project
            /\ persisted' = persisted]_vars

\* ---- frame of an execution
\* the step keeps the length and the order of the task list and changes at
\* most one task, which carries the given id
OnlyTargetChanges(id) ==
    /\ project'.present
    /\ IdSeq(project'.tasks) = IdSeq(project.tasks)
    /\ \A i \in 1..Len(project.tasks) :
          project'.tasks[i] # project.tasks[i] =>
              /\ project.tasks[i].id = id
              /\ \A j \in 1..Len(project.tasks) :
                    j # i => project'.tasks[j] = project.tasks[j]

\* C38: the step that starts an execution and the step that ends it change,
\* among the tasks, only the one task the execution is about, and keep the
\* task order and the package list; the step that ends a failed execution
\* keeps the Artifact Store as well.
C38_ExecutionFrame ==
    [][/\ (ExecStartStep /\ project.present) =>
            /\ OnlyTargetChanges(StartedExec.id)
            /\ project'.packages = project.packages
            /\ project'.files = project.files
       /\ (ExecEndsStep /\ project.present) =>
            /\ OnlyTargetChanges(EndedExec.id)
            /\ project'.packages = project.packages
            /\ ~ExecSuccessStep => project'.files = project.files]_vars

\* ---- execution events of the log
\* entry k, a completed or failed event, follows a started event of the same
\* task with no completed or failed event of that task in between
ExecStartPrecedes(log, k) ==
    \E j \in 1..(k - 1) :
        /\ log[j].taskId = log[k].taskId
        /\ log[j].status = "started"
        /\ \A q \in (j + 1)..(k - 1) :
              ~(log[q].taskId = log[k].taskId /\ log[q].status \in {"completed", "failed"})

\* C39 (log part): every completed or failed event follows a started event of
\* its task with no other completed or failed event of that task in between.
C39_EventsPaired ==
    project.present =>
        \A k \in 1..Len(project.activityLog) :
            project.activityLog[k].status \in {"completed", "failed"} =>
                ExecStartPrecedes(project.activityLog, k)

\* C39: every completed or failed event of the log follows a started event
\* of its task with no other completed or failed event of that task in
\* between, and in the state in which a completed event is appended its task
\* is in the task list with status completed.
C39_ExecutionEvents ==
    [][/\ project'.present =>
            \A k \in 1..Len(project'.activityLog) :
                project'.activityLog[k].status \in {"completed", "failed"} =>
                    ExecStartPrecedes(project'.activityLog, k)
       /\ ExecSuccessStep =>
            \E i \in 1..Len(project'.tasks) :
                /\ project'.tasks[i].id = Last(project'.activityLog).taskId
                /\ project'.tasks[i].status = "completed"]_vars

====
